---- MODULE Spec2Model ----
(***************************************************************************)
(* Model of the reconfigurable Base wrapper (package base), of the servo   *)
(* gRPC client (package servo) and of the sensor server's test scenario.   *)
(*                                                                         *)
(* An interface value of Go is two machine words, the type word (tab) and  *)
(* the data word: it is modelled as the pair <<tab, data>>, and the nil    *)
(* interface as <<0, 0>>.  A copy of an interface value that is not        *)
(* protected by a lock is modelled word by word.                           *)
(***************************************************************************)
EXTENDS Integers, FiniteSets, Sequences, TLC

\* ------------------------------------------------------------ bounds
NumProcs == 2
NumWrappers == 2
NumBases == 2
MaxArg == 1
MaxRequests == 2
MaxCloses == 2
MaxReplaces == 1

Procs == 1..NumProcs
Wrappers == 1..NumWrappers

\* ------------------------------------------------------------ values
\* The nil interface value.
Nil == <<0, 0>>

\* The concrete type of the i-th driver: drivers of two different types exist.
TabOf(i) == 1 + (i % 2)

\* A Base: the plain (not wrapped) driver instances handed to the package.
Base(i) == <<TabOf(i), i>>
Bases == {Base(i) : i \in 1..NumBases}

\* A value that does not satisfy the Base interface (r.(Base) fails).
NotBase == <<0, 1>>

\* A resource.Reconfigurable that is not a *reconfigurableBase.
NotWrapper == 0

\* The five domain methods of the Base interface.
Methods == {"MoveStraight", "MoveArc", "Spin", "Stop", "WidthGet"}

\* What the held instance's method returns: nil, a driver error, or an error
\* caused by the cancellation of ctx.
Outcomes == {"ok", "error", "cancelled"}

\* The arguments of the domain methods: a distance, a speed, an angle or an
\* angular speed is 0 (stop) or a value up to MaxArg; block is a boolean.
ArgVals == 0..MaxArg

ArgsOf(m) ==
    CASE m = "MoveStraight" -> ArgVals \X ArgVals \X BOOLEAN
      [] m = "MoveArc"      -> ArgVals \X ArgVals \X ArgVals \X BOOLEAN
      [] m = "Spin"         -> ArgVals \X ArgVals \X BOOLEAN
      [] OTHER              -> {<<>>}

\* One argument list of method m, for the operations whose locking is checked.
SomeArgs(m) == CHOOSE x \in ArgsOf(m) : TRUE

\* What WidthGet of driver instance b returns.
Width(b) == 100 * b[2]

VARIABLES
    actual,       \* actual[w]: the field r.actual of wrapper w, <<tab, data>>
    nwrap,        \* the wrappers 1..nwrap have been constructed
    readerCount,  \* readerCount[w]: shared holders of r.mu
    readerWait,   \* readerWait[w]: the processes blocked in r.mu.RLock()
    writer,       \* writer[w]: the process that holds r.mu's writer mutex, or 0
    lastLock,     \* lastLock[w]: history, the process that passed r.mu.Lock() last, or 0
    closed,       \* the drivers (data words) TryClose has been called on
    pc,           \* pc[p]: where process p is in its current operation
    op,           \* op[p]: the operation p executes or (pc[p] = "ret") has returned from
    wr,           \* wr[p]: the receiver r of that operation (Wrap: the result)
    arg,          \* arg[p]: the newBase argument of p's Reconfigure
    old,          \* old[p]: the r.actual that p's Reconfigure passed to TryClose
    rd,           \* rd[p]: the words p's Reconfigure loaded from actual.actual
    held,         \* held[p]: the values actual.actual had while p loaded it
    tgt,          \* tgt[p]: the instance p's call has read from r.actual
    closeRes,     \* closeRes[p]: what TryClose returned in p's Reconfigure
    err,          \* err[p]: the error that operation returns
    sent,         \* sent[p]: the arguments p passed to the domain method (Wrap: the value)
    icalls,       \* icalls[p]: the calls p's operation has made on the held instance
    res,          \* res[p]: <<value, error>>, what the instance's method returned
    val,          \* val[p]: the value that operation returns (WidthGet)
    \* package servo, the gRPC client
    cname,        \* c.name of the client, "" while no client is constructed
    connOpen,     \* sc.conn is open
    connCloses,   \* how many times sc.conn.Close() has been invoked
    scall,        \* the last call on the client: <<method, argument>>
    reqs,         \* the requests that call has sent through c.client, in order
    reply,        \* <<AngleDeg, error>>, what the last RPC invocation returned
    sret,         \* <<value, error>>, what that call on the client returned
    \* package sensor, the server and its test
    registry,     \* the subtype service: short name -> entry
    served,       \* the names the Readings requests served so far asked for
    driven,       \* the sensors whose Readings the last request has invoked
    resp,         \* <<readings, error message>>, the last response
    replacing,    \* a replacement of the registry's table is under way
    building,     \* the table that replacement has built so far
    target,       \* the mapping the last replacement installs
    prev,         \* the mapping that was published when it began
    seen,         \* the last lookup since then: <<name, entry found>>
    epoch,        \* how many replacements have begun
    \* package base, DoMove
    move,         \* the Move the last DoMove was given
    mpc,          \* where that DoMove is
    mcalls,       \* the calls it has made on its base, in order: <<method, arguments>>
    mouts,        \* what those calls returned, in order
    merr          \* the error it returned

vars == <<actual, nwrap, readerCount, readerWait, writer, lastLock, closed,
          pc, op, wr, arg, old, rd, held, tgt, closeRes, err,
          sent, icalls, res, val,
          cname, connOpen, connCloses, scall, reqs, reply, sret,
          registry, served, driven, resp,
          replacing, building, target, prev, seen, epoch,
          move, mpc, mcalls, mouts, merr>>

muVars == <<readerCount, readerWait, writer, lastLock>>
callVars == <<sent, icalls, res, val>>
locals == <<op, wr, arg, old, rd, held, tgt, closeRes, err, callVars>>

\* The state of DoMove, and of the other packages: no operation of the wrapper
\* touches it.
servoVars == <<cname, connOpen, connCloses, scall, reqs, reply, sret>>
tableVars == <<replacing, building, target, prev, seen, epoch>>
sensorVars == <<registry, served, driven, resp, tableVars>>
moveVars == <<move, mpc, mcalls, mouts, merr>>
others == <<servoVars, sensorVars, moveVars>>
baseVars == <<actual, nwrap, muVars, closed, pc, locals, moveVars>>

\* No servo client is constructed.
ServoInit ==
    /\ cname = ""
    /\ connOpen = FALSE
    /\ connCloses = 0
    /\ scall = <<"none", 0>>
    /\ reqs = <<>>
    /\ reply = <<0, "none">>
    /\ sret = <<0, "none">>

\* No sensor server is constructed.
SensorInit ==
    /\ registry = <<>>
    /\ served = <<>>
    /\ driven = <<>>
    /\ resp = <<<<>>, <<>>>>
    /\ replacing = FALSE
    /\ building = <<>>
    /\ target = <<>>
    /\ prev = <<>>
    /\ seen = <<>>
    /\ epoch = 0

\* A Move: DistanceMillis, MillisPerSec, AngleDeg, DegsPerSec and Block.
Moves ==
    [DistanceMillis : ArgVals, MillisPerSec : ArgVals,
     AngleDeg : ArgVals, DegsPerSec : ArgVals, Block : BOOLEAN]

\* No DoMove has been called.
MoveInit ==
    /\ move = [DistanceMillis |-> 0, MillisPerSec |-> 0,
               AngleDeg |-> 0, DegsPerSec |-> 0, Block |-> FALSE]
    /\ mpc = "idle"
    /\ mcalls = <<>>
    /\ mouts = <<>>
    /\ merr = "none"

Init ==
    /\ actual = [w \in Wrappers |-> Nil]
    /\ nwrap = 0
    /\ readerCount = [w \in Wrappers |-> 0]
    /\ readerWait = [w \in Wrappers |-> {}]
    /\ writer = [w \in Wrappers |-> 0]
    /\ lastLock = [w \in Wrappers |-> 0]
    /\ closed = {}
    /\ pc = [p \in Procs |-> "idle"]
    /\ op = [p \in Procs |-> "none"]
    /\ wr = [p \in Procs |-> 0]
    /\ arg = [p \in Procs |-> 0]
    /\ old = [p \in Procs |-> Nil]
    /\ rd = [p \in Procs |-> Nil]
    /\ held = [p \in Procs |-> {}]
    /\ tgt = [p \in Procs |-> Nil]
    /\ closeRes = [p \in Procs |-> "none"]
    /\ err = [p \in Procs |-> "none"]
    /\ sent = [p \in Procs |-> <<>>]
    /\ icalls = [p \in Procs |-> <<>>]
    /\ res = [p \in Procs |-> <<0, "none">>]
    /\ val = [p \in Procs |-> 0]
    /\ ServoInit
    /\ SensorInit
    /\ MoveInit

\* ------------------------------------------------------------ sync.RWMutex
\* Mutant: r.mu.Lock() in the place of r.mu.RLock(), a reader excludes readers.
RLock_Exclusive(p, w) ==
    IF writer[w] = 0 /\ readerCount[w] = 0
    THEN /\ readerCount' = [readerCount EXCEPT ![w] = @ + 1]
         /\ pc' = [pc EXCEPT ![p] = "held"]
         /\ UNCHANGED <<readerWait, writer, lastLock>>
    ELSE /\ readerWait' = [readerWait EXCEPT ![w] = @ \cup {p}]
         /\ pc' = [pc EXCEPT ![p] = "rblocked"]
         /\ UNCHANGED <<readerCount, writer, lastLock>>

\* Mutant: a reader-preferring lock, RLock blocks only while a writer is
\* inside its critical section, not while one waits for the readers to leave.
RLock_ReaderPreferred(p, w) ==
    IF writer[w] = 0 \/ pc[writer[w]] = "lockwait"
    THEN /\ readerCount' = [readerCount EXCEPT ![w] = @ + 1]
         /\ pc' = [pc EXCEPT ![p] = "held"]
         /\ UNCHANGED <<readerWait, writer, lastLock>>
    ELSE /\ readerWait' = [readerWait EXCEPT ![w] = @ \cup {p}]
         /\ pc' = [pc EXCEPT ![p] = "rblocked"]
         /\ UNCHANGED <<readerCount, writer, lastLock>>

\* r.mu.RLock(): the caller becomes a shared holder unless a writer holds or
\* waits for the lock; then it blocks until that writer's Unlock.
RLock(p, w) ==
    IF writer[w] = 0
    THEN /\ readerCount' = [readerCount EXCEPT ![w] = @ + 1]
         /\ pc' = [pc EXCEPT ![p] = "held"]
         /\ UNCHANGED <<readerWait, writer, lastLock>>
    ELSE /\ readerWait' = [readerWait EXCEPT ![w] = @ \cup {p}]
         /\ pc' = [pc EXCEPT ![p] = "rblocked"]
         /\ UNCHANGED <<readerCount, writer, lastLock>>

\* r.mu.RUnlock()
RUnlock(w) ==
    /\ readerCount' = [readerCount EXCEPT ![w] = @ - 1]
    /\ UNCHANGED <<readerWait, writer, lastLock>>

\* Mutant: the writer mutex does not exclude a second writer.
LockW_NoMutex(p, w) ==
    /\ writer' = [writer EXCEPT ![w] = p]
    /\ UNCHANGED <<readerCount, readerWait, lastLock>>

\* r.mu.Lock(), first half: the writer mutex is free and is taken; the readers
\* that arrive from now on block.
LockW(p, w) ==
    /\ writer[w] = 0
    /\ writer' = [writer EXCEPT ![w] = p]
    /\ UNCHANGED <<readerCount, readerWait, lastLock>>

\* Mutant: Lock does not wait for the shared holders to leave.
LockDrained_NoWait(p, w) ==
    /\ lastLock' = [lastLock EXCEPT ![w] = p]
    /\ UNCHANGED <<readerCount, readerWait, writer>>

\* r.mu.Lock(), second half: the shared holders have all left.
LockDrained(p, w) ==
    /\ readerCount[w] = 0
    /\ lastLock' = [lastLock EXCEPT ![w] = p]
    /\ UNCHANGED <<readerCount, readerWait, writer>>

\* r.mu.Unlock(): the blocked readers are released and hold the lock (shared)
\* from here on; then the writer mutex is released.
Unlock(p, w) ==
    /\ readerCount' = [readerCount EXCEPT ![w] = Cardinality(readerWait[w])]
    /\ readerWait' = [readerWait EXCEPT ![w] = {}]
    /\ writer' = [writer EXCEPT ![w] = 0]
    /\ pc' = [q \in Procs |->
                IF q = p THEN "ret"
                ELSE IF q \in readerWait[w] THEN "held" ELSE pc[q]]
    /\ UNCHANGED lastLock

\* ------------------------------------------------------------ domain calls
\* A process is in operation m with receiver w, argument a (Reconfigure) or
\* arguments x (a domain method) and result e, and its other locals are fresh.
Begin(p, m, w, a, x, e) ==
    /\ op' = [op EXCEPT ![p] = m]
    /\ wr' = [wr EXCEPT ![p] = w]
    /\ arg' = [arg EXCEPT ![p] = a]
    /\ old' = [old EXCEPT ![p] = Nil]
    /\ rd' = [rd EXCEPT ![p] = Nil]
    /\ held' = [held EXCEPT ![p] = {}]
    /\ tgt' = [tgt EXCEPT ![p] = Nil]
    /\ closeRes' = [closeRes EXCEPT ![p] = "none"]
    /\ err' = [err EXCEPT ![p] = e]
    /\ sent' = [sent EXCEPT ![p] = x]
    /\ icalls' = [icalls EXCEPT ![p] = <<>>]
    /\ res' = [res EXCEPT ![p] = <<0, "none">>]
    /\ val' = [val EXCEPT ![p] = 0]

\* MoveStraight, MoveArc, Spin, Stop, WidthGet and ProxyFor begin alike:
\* r.mu.RLock(); defer r.mu.RUnlock()
CallStart(p, w, m, x) ==
    /\ pc[p] = "idle"
    /\ w \in 1..nwrap
    /\ Begin(p, m, w, 0, x, "none")
    /\ RLock(p, w)
    /\ UNCHANGED <<actual, nwrap, closed, others>>

\* Mutant: the wrapper implements the documented "a distance or speed of zero
\* stops the base" itself and calls Stop in the place of the move.
ForwardedCall_StopOnZero(m, x) ==
    IF m \in {"MoveStraight", "MoveArc"} /\ (x[1] = 0 \/ x[2] = 0)
    THEN <<"Stop", <<>>>>
    ELSE <<m, x>>

\* The call that method m of the wrapper, called with the arguments x, makes
\* on r.actual.
ForwardedCall(m, x) ==
    CASE m = "MoveStraight" -> <<"MoveStraight", <<x[1], x[2], x[3]>>>>
      [] m = "MoveArc"      -> <<"MoveArc", <<x[1], x[2], x[3], x[4]>>>>
      [] m = "Spin"         -> <<"Spin", <<x[1], x[2], x[3]>>>>
      [] m = "Stop"         -> <<"Stop", <<>>>>
      [] m = "WidthGet"     -> <<"WidthGet", <<>>>>

\* return r.actual.M(ctx, ...): r.actual is read and its method is entered.
Forward(p) ==
    /\ pc[p] = "held"
    /\ op[p] \in Methods
    /\ tgt' = [tgt EXCEPT ![p] = actual[wr[p]]]
    /\ icalls' = [icalls EXCEPT ![p] = Append(@, ForwardedCall(op[p], sent[p]))]
    /\ pc' = [pc EXCEPT ![p] = "incall"]
    /\ UNCHANGED <<actual, nwrap, muVars, closed, op, wr, arg, old, rd, held, closeRes, err,
                   sent, res, val, others>>

\* What the method of the instance p's call runs on returns with outcome o:
\* its width from a WidthGet that succeeds, and the error.
Returned(p, o) ==
    <<IF op[p] = "WidthGet" /\ o = "ok" THEN Width(tgt[p]) ELSE 0, o>>

\* Mutant: the error of the instance is logged and nil is returned.
InstanceReturn_DropError(p, o) ==
    /\ pc[p] = "incall"
    /\ res' = [res EXCEPT ![p] = Returned(p, o)]
    /\ val' = [val EXCEPT ![p] = Returned(p, o)[1]]
    /\ err' = [err EXCEPT ![p] = "ok"]
    /\ pc' = [pc EXCEPT ![p] = "runlock"]
    /\ UNCHANGED <<actual, nwrap, muVars, closed, op, wr, arg, old, rd, held, tgt, closeRes,
                   sent, icalls, others>>

\* The instance's method returns with outcome o, which is what the wrapper's
\* method is going to return.
InstanceReturn(p, o) ==
    /\ pc[p] = "incall"
    /\ res' = [res EXCEPT ![p] = Returned(p, o)]
    /\ val' = [val EXCEPT ![p] = Returned(p, o)[1]]
    /\ err' = [err EXCEPT ![p] = Returned(p, o)[2]]
    /\ pc' = [pc EXCEPT ![p] = "runlock"]
    /\ UNCHANGED <<actual, nwrap, muVars, closed, op, wr, arg, old, rd, held, tgt, closeRes,
                   sent, icalls, others>>

\* ProxyFor: return r.actual
ProxyFor(p) ==
    /\ pc[p] = "held"
    /\ op[p] = "ProxyFor"
    /\ tgt' = [tgt EXCEPT ![p] = actual[wr[p]]]
    /\ err' = [err EXCEPT ![p] = "ok"]
    /\ pc' = [pc EXCEPT ![p] = "runlock"]
    /\ UNCHANGED <<actual, nwrap, muVars, closed, op, wr, arg, callVars, others, old, rd, held, closeRes>>

\* Mutant: the lock is released by hand after the call, on the paths that
\* return no cancellation error only.
CallReturn_LeakOnCancel(p) ==
    /\ pc[p] = "runlock"
    /\ IF err[p] = "cancelled"
       THEN UNCHANGED muVars
       ELSE RUnlock(wr[p])
    /\ pc' = [pc EXCEPT ![p] = "ret"]
    /\ UNCHANGED <<actual, nwrap, closed, locals, others>>

\* The deferred r.mu.RUnlock() runs and the method returns.
CallReturn(p) ==
    /\ pc[p] = "runlock"
    /\ RUnlock(wr[p])
    /\ pc' = [pc EXCEPT ![p] = "ret"]
    /\ UNCHANGED <<actual, nwrap, closed, locals, others>>

\* The caller goes on with what the operation returned: the process is free
\* for its next operation.
Done(p) ==
    /\ pc[p] = "ret"
    /\ pc' = [pc EXCEPT ![p] = "idle"]
    /\ Begin(p, "none", 0, 0, <<>>, "none")
    /\ lastLock' = [w \in Wrappers |-> IF lastLock[w] = p THEN 0 ELSE lastLock[w]]
    /\ UNCHANGED <<actual, nwrap, readerCount, readerWait, writer, closed, others>>

\* ------------------------------------------------------------ Reconfigure
\* Reconfigure(ctx, newBase) is called with newBase the wrapper a, or a value
\* that is no *reconfigurableBase (a = NotWrapper): r.mu.Lock() begins.
ReconfigureStart(p, w, a) ==
    /\ pc[p] = "idle"
    /\ w \in 1..nwrap
    /\ a \in 0..nwrap
    /\ Begin(p, "Reconfigure", w, a, <<>>, "none")
    /\ pc' = [pc EXCEPT ![p] = "lock"]
    /\ UNCHANGED <<actual, nwrap, muVars, closed, others>>

LockAcquire(p) ==
    /\ pc[p] = "lock"
    /\ LockW(p, wr[p])
    /\ pc' = [pc EXCEPT ![p] = "lockwait"]
    /\ UNCHANGED <<actual, nwrap, closed, locals, others>>

LockEnter(p) ==
    /\ pc[p] = "lockwait"
    /\ LockDrained(p, wr[p])
    /\ pc' = [pc EXCEPT ![p] = "critical"]
    /\ UNCHANGED <<actual, nwrap, closed, locals, others>>

\* Mutant: a mismatch is ignored silently (return nil).
TypeAssert_NilError(p) ==
    /\ pc[p] = "critical"
    /\ IF arg[p] = NotWrapper
       THEN /\ err' = [err EXCEPT ![p] = "ok"]
            /\ pc' = [pc EXCEPT ![p] = "unlock"]
       ELSE /\ pc' = [pc EXCEPT ![p] = "close"]
            /\ UNCHANGED err
    /\ UNCHANGED <<actual, nwrap, muVars, closed, op, wr, arg, callVars, others, old, rd, held, tgt, closeRes>>

\* actual, ok := newBase.(*reconfigurableBase)
\* if !ok { return errors.Errorf(...) }
TypeAssert(p) ==
    /\ pc[p] = "critical"
    /\ IF arg[p] = NotWrapper
       THEN /\ err' = [err EXCEPT ![p] = "error"]
            /\ pc' = [pc EXCEPT ![p] = "unlock"]
       ELSE /\ pc' = [pc EXCEPT ![p] = "close"]
            /\ UNCHANGED err
    /\ UNCHANGED <<actual, nwrap, muVars, closed, op, wr, arg, callVars, others, old, rd, held, tgt, closeRes>>

\* Mutant: the error of TryClose is returned, before the swap.
TryClose_Propagate(p, c) ==
    /\ pc[p] = "close"
    /\ old' = [old EXCEPT ![p] = actual[wr[p]]]
    /\ closed' = closed \cup {actual[wr[p]][2]}
    /\ closeRes' = [closeRes EXCEPT ![p] = c]
    /\ IF c = "fail"
       THEN /\ err' = [err EXCEPT ![p] = "error"]
            /\ pc' = [pc EXCEPT ![p] = "unlock"]
       ELSE /\ pc' = [pc EXCEPT ![p] = "loadtab"]
            /\ UNCHANGED err
    /\ UNCHANGED <<actual, nwrap, muVars, op, wr, arg, callVars, others, rd, held, tgt>>

\* if err := viamutils.TryClose(ctx, r.actual); err != nil { log it }
TryClose(p, c) ==
    /\ pc[p] = "close"
    /\ old' = [old EXCEPT ![p] = actual[wr[p]]]
    /\ closed' = closed \cup {actual[wr[p]][2]}
    /\ closeRes' = [closeRes EXCEPT ![p] = c]
    /\ pc' = [pc EXCEPT ![p] = "loadtab"]
    /\ UNCHANGED <<actual, nwrap, muVars, op, wr, arg, callVars, others, rd, held, tgt, err>>

\* The values the field actual of wrapper a has now: the one in memory or,
\* while a store into it is half done, the one it had and the one it gets.
HeldNow(a) ==
    IF \E q \in Procs : pc[q] = "storedata" /\ wr[q] = a
    THEN LET q == CHOOSE q \in Procs : pc[q] = "storedata" /\ wr[q] = a
         IN  {old[q], rd[q]}
    ELSE {actual[a]}

\* r.actual = actual.actual: the two words of actual.actual are loaded with no
\* lock of the argument wrapper held ...
LoadTab(p) ==
    /\ pc[p] = "loadtab"
    /\ rd' = [rd EXCEPT ![p] = <<actual[arg[p]][1], 0>>]
    /\ held' = [held EXCEPT ![p] = HeldNow(arg[p])]
    /\ pc' = [pc EXCEPT ![p] = "loaddata"]
    /\ UNCHANGED <<actual, nwrap, muVars, closed, op, wr, arg, callVars, others, old, tgt, closeRes, err>>

LoadData(p) ==
    /\ pc[p] = "loaddata"
    /\ rd' = [rd EXCEPT ![p] = <<rd[p][1], actual[arg[p]][2]>>]
    /\ held' = [held EXCEPT ![p] = @ \cup HeldNow(arg[p])]
    /\ pc' = [pc EXCEPT ![p] = "storetab"]
    /\ UNCHANGED <<actual, nwrap, muVars, closed, op, wr, arg, callVars, others, old, tgt, closeRes, err>>

\* ... and stored into r.actual, under r.mu.
StoreTab(p) ==
    /\ pc[p] = "storetab"
    /\ actual' = [actual EXCEPT ![wr[p]] = <<rd[p][1], @[2]>>]
    /\ pc' = [pc EXCEPT ![p] = "storedata"]
    /\ UNCHANGED <<nwrap, muVars, closed, locals, others>>

\* The second word is stored; return nil
StoreData(p) ==
    /\ pc[p] = "storedata"
    /\ actual' = [actual EXCEPT ![wr[p]] = <<@[1], rd[p][2]>>]
    /\ err' = [err EXCEPT ![p] = "ok"]
    /\ pc' = [pc EXCEPT ![p] = "unlock"]
    /\ UNCHANGED <<nwrap, muVars, closed, op, wr, arg, callVars, others, old, rd, held, tgt, closeRes>>

\* The deferred r.mu.Unlock() runs and Reconfigure returns.
ReconfigureReturn(p) ==
    /\ pc[p] = "unlock"
    /\ Unlock(p, wr[p])
    /\ old' = [old EXCEPT ![p] = Nil]
    /\ held' = [held EXCEPT ![p] = {}]
    /\ UNCHANGED <<actual, nwrap, closed, op, wr, arg, callVars, others, rd, tgt, closeRes, err>>

\* ------------------------------------------------------------ construction
\* Mutant: the value is wrapped without the type assertion r.(Base).
WrapWithReconfigurable_NoTypeCheck(p, x, xw) ==
    /\ pc[p] = "idle"
    /\ IF xw # 0
       THEN /\ xw \in 1..nwrap
            /\ x = Nil
            /\ Begin(p, "Wrap", xw, 0, <<x, xw>>, "ok")
            /\ UNCHANGED <<actual, nwrap>>
       ELSE /\ nwrap < NumWrappers
            /\ nwrap' = nwrap + 1
            /\ actual' = [actual EXCEPT ![nwrap + 1] = x]
            /\ Begin(p, "Wrap", nwrap + 1, 0, <<x, xw>>, "ok")
    /\ pc' = [pc EXCEPT ![p] = "ret"]
    /\ UNCHANGED <<muVars, closed, others>>

\* Mutant: the second type assertion is left out, a wrapper is wrapped again
\* like a plain Base.
WrapWithReconfigurable_Rewrap(p, x, xw) ==
    /\ pc[p] = "idle"
    /\ IF xw = 0 /\ x \notin Bases
       THEN /\ Begin(p, "Wrap", 0, 0, <<x, xw>>, "error")
            /\ UNCHANGED <<actual, nwrap>>
       ELSE /\ xw # 0 => xw \in 1..nwrap /\ x = Nil
            /\ nwrap < NumWrappers
            /\ nwrap' = nwrap + 1
            /\ actual' = [actual EXCEPT ![nwrap + 1] = IF xw # 0 THEN actual[xw] ELSE x]
            /\ Begin(p, "Wrap", nwrap + 1, 0, <<x, xw>>, "ok")
    /\ pc' = [pc EXCEPT ![p] = "ret"]
    /\ UNCHANGED <<muVars, closed, others>>

\* WrapWithReconfigurable(r): r is the wrapper xw, or (xw = 0) the value x: a
\* plain Base, a value that is no Base, or nil.  The argument is kept in
\* sent[p] as <<x, xw>>.
\*   base, ok := r.(Base); if !ok { return nil, errors.Errorf(...) }
\*   if reconfigurable, ok := base.(*reconfigurableBase); ok { return it }
\*   return &reconfigurableBase{actual: base}, nil
WrapWithReconfigurable(p, x, xw) ==
    /\ pc[p] = "idle"
    /\ IF xw # 0
       THEN /\ xw \in 1..nwrap
            /\ x = Nil
            /\ Begin(p, "Wrap", xw, 0, <<x, xw>>, "ok")
            /\ UNCHANGED <<actual, nwrap>>
       ELSE IF x \notin Bases
       THEN /\ Begin(p, "Wrap", 0, 0, <<x, xw>>, "error")
            /\ UNCHANGED <<actual, nwrap>>
       ELSE /\ nwrap < NumWrappers
            /\ nwrap' = nwrap + 1
            /\ actual' = [actual EXCEPT ![nwrap + 1] = x]
            /\ Begin(p, "Wrap", nwrap + 1, 0, <<x, xw>>, "ok")
    /\ pc' = [pc EXCEPT ![p] = "ret"]
    /\ UNCHANGED <<muVars, closed, others>>

\* ------------------------------------------------------------ specification
Next ==
    \/ \E p \in Procs, w \in Wrappers, m \in Methods \cup {"ProxyFor"} :
          CallStart(p, w, m, SomeArgs(m))
    \/ \E p \in Procs : Forward(p)
    \/ \E p \in Procs, o \in Outcomes : InstanceReturn(p, o)
    \/ \E p \in Procs : ProxyFor(p)
    \/ \E p \in Procs : CallReturn(p)
    \/ \E p \in Procs, w \in Wrappers, a \in 0..NumWrappers : ReconfigureStart(p, w, a)
    \/ \E p \in Procs : LockAcquire(p)
    \/ \E p \in Procs : LockEnter(p)
    \/ \E p \in Procs : TypeAssert(p)
    \/ \E p \in Procs, c \in {"ok", "fail"} : TryClose(p, c)
    \/ \E p \in Procs : LoadTab(p)
    \/ \E p \in Procs : LoadData(p)
    \/ \E p \in Procs : StoreTab(p)
    \/ \E p \in Procs : StoreData(p)
    \/ \E p \in Procs : ReconfigureReturn(p)
    \/ \E p \in Procs : Done(p)
    \/ \E p \in Procs, x \in Bases \cup {NotBase, Nil}, xw \in 0..NumWrappers :
          WrapWithReconfigurable(p, x, xw)

Spec == Init /\ [][Next]_vars

\* ------------------------------------------------------------ progress
\* The wrapper whose lock the progress of calls and of Reconfigure is checked
\* on: the wrappers exist, and every operation has this one as its receiver.
Contended == CHOOSE w \in Wrappers : TRUE

LiveInit ==
    /\ actual = [w \in Wrappers |-> Base(w)]
    /\ nwrap = NumWrappers
    /\ readerCount = [w \in Wrappers |-> 0]
    /\ readerWait = [w \in Wrappers |-> {}]
    /\ writer = [w \in Wrappers |-> 0]
    /\ lastLock = [w \in Wrappers |-> 0]
    /\ closed = {}
    /\ pc = [p \in Procs |-> "idle"]
    /\ op = [p \in Procs |-> "none"]
    /\ wr = [p \in Procs |-> 0]
    /\ arg = [p \in Procs |-> 0]
    /\ old = [p \in Procs |-> Nil]
    /\ rd = [p \in Procs |-> Nil]
    /\ held = [p \in Procs |-> {}]
    /\ tgt = [p \in Procs |-> Nil]
    /\ closeRes = [p \in Procs |-> "none"]
    /\ err = [p \in Procs |-> "none"]
    /\ sent = [p \in Procs |-> <<>>]
    /\ icalls = [p \in Procs |-> <<>>]
    /\ res = [p \in Procs |-> <<0, "none">>]
    /\ val = [p \in Procs |-> 0]
    /\ ServoInit
    /\ SensorInit
    /\ MoveInit

LiveNext ==
    \/ \E p \in Procs, m \in Methods \cup {"ProxyFor"} :
          CallStart(p, Contended, m, SomeArgs(m))
    \/ \E p \in Procs : Forward(p)
    \/ \E p \in Procs, o \in Outcomes : InstanceReturn(p, o)
    \/ \E p \in Procs : ProxyFor(p)
    \/ \E p \in Procs : CallReturn(p)
    \/ \E p \in Procs, a \in 0..NumWrappers : ReconfigureStart(p, Contended, a)
    \/ \E p \in Procs : LockAcquire(p)
    \/ \E p \in Procs : LockEnter(p)
    \/ \E p \in Procs : TypeAssert(p)
    \/ \E p \in Procs, c \in {"ok", "fail"} : TryClose(p, c)
    \/ \E p \in Procs : LoadTab(p)
    \/ \E p \in Procs : LoadData(p)
    \/ \E p \in Procs : StoreTab(p)
    \/ \E p \in Procs : StoreData(p)
    \/ \E p \in Procs : ReconfigureReturn(p)
    \/ \E p \in Procs : Done(p)

\* The steps of process p that wait for nothing but the scheduler.  The call
\* of the held instance's method is among them: that every call in flight
\* returns is the hypothesis of the progress claim.
Running(p) ==
    \/ Forward(p)
    \/ \E o \in Outcomes : InstanceReturn(p, o)
    \/ ProxyFor(p)
    \/ CallReturn(p)
    \/ TypeAssert(p)
    \/ \E c \in {"ok", "fail"} : TryClose(p, c)
    \/ LoadTab(p)
    \/ LoadData(p)
    \/ StoreTab(p)
    \/ StoreData(p)
    \/ ReconfigureReturn(p)

\* Fair scheduling: a goroutine that can run does run.  A writer that waits
\* for the readers to leave is woken by the last RUnlock (weak fairness); the
\* writer mutex is a sync.Mutex, which hands the mutex over to a goroutine
\* that has waited for it (starvation mode), hence strong fairness.  Nothing
\* obliges a caller to begin an operation.
LiveSpec ==
    /\ LiveInit
    /\ [][LiveNext]_vars
    /\ \A p \in Procs :
          /\ WF_vars(Running(p))
          /\ WF_vars(LockEnter(p))
          /\ SF_vars(LockAcquire(p))

\* ------------------------------------------------------------ forwarding
\* The domain calls with every argument list, next to the Reconfigures of the
\* same wrapper.
CallNext ==
    \/ \E p \in Procs, m \in Methods : \E x \in ArgsOf(m) : CallStart(p, Contended, m, x)
    \/ \E p \in Procs : Forward(p)
    \/ \E p \in Procs, o \in Outcomes : InstanceReturn(p, o)
    \/ \E p \in Procs : CallReturn(p)
    \/ \E p \in Procs, a \in 0..NumWrappers : ReconfigureStart(p, Contended, a)
    \/ \E p \in Procs : LockAcquire(p)
    \/ \E p \in Procs : LockEnter(p)
    \/ \E p \in Procs : TypeAssert(p)
    \/ \E p \in Procs, c \in {"ok", "fail"} : TryClose(p, c)
    \/ \E p \in Procs : LoadTab(p)
    \/ \E p \in Procs : LoadData(p)
    \/ \E p \in Procs : StoreTab(p)
    \/ \E p \in Procs : StoreData(p)
    \/ \E p \in Procs : ReconfigureReturn(p)
    \/ \E p \in Procs : Done(p)

CallSpec == LiveInit /\ [][CallNext]_vars

\* ------------------------------------------------------------ sensor server
\* The short names the test requests: testSensorName, failSensorName,
\* fakeSensorName and missingSensorName.
SensorNames == {"sensor1", "sensor2", "sensor3", "sensor4"}

\* An error message is the sequence of its words; <<>> is no error.
NoError == <<>>

\* The message has the words of sub in it, in a row (ShouldContainSubstring).
Contains(msg, sub) ==
    \E i \in 0..(Len(msg) - Len(sub)) : SubSeq(msg, i + 1, i + Len(sub)) = sub

\* rs := []interface{}{1.1, 2.2}
Rs == <<"1.1", "2.2">>

\* errors.New("can't get readings")
CantGetReadings == <<"can't", "get", "readings">>

\* What a registry holds under a name: an inject.Sensor whose ReadingsFunc
\* returns rs, one whose ReadingsFunc returns the error, or a value that is no
\* sensor (the string "notSensor").
WorkingSensor == <<"sensor", "readings">>
FailingSensor == <<"sensor", "fails">>
NotSensor == <<"string", "notSensor">>
Entries == {WorkingSensor, FailingSensor, NotSensor}

\* The registry newServer builds.
TestRegistry ==
    [n \in {"sensor1", "sensor2", "sensor3"} |->
        CASE n = "sensor1" -> WorkingSensor
          [] n = "sensor2" -> FailingSensor
          [] n = "sensor3" -> NotSensor]

\* Every registry over the names: a name is absent or has one of the entries.
Registries == UNION {[D -> Entries] : D \in SUBSET SensorNames}

\* injectSensor.ReadingsFunc and injectSensor2.ReadingsFunc: <<readings, error>>.
ReadingsFunc(e) ==
    IF e = WorkingSensor THEN <<Rs, NoError>> ELSE <<<<>>, CantGetReadings>>

\* structpb.NewValue(r) of a float64: a Value of kind number_value.
NewValue(r) == [kind |-> "number_value", number |-> r]

\* Mutant: the failed lookup is reported as a generic error.
NotFoundError_Generic(n) == <<"resource", "not", "found">>

\* Server: the error for a name the registry does not have.
NotFoundError(n) == <<"no", "generic", "sensor", "named", n>>

\* Mutant: an entry of the wrong kind is reported as a missing name.
WrongSubtypeError_AsMissing(n) == NotFoundError(n)

\* Server: the error for an entry that is no Sensor.
WrongSubtypeError(n) == <<"resource", n, "is", "not", "a", "generic", "sensor">>

\* Server: the entry satisfies the Sensor contract.
IsSensor(e) == e[1] = "sensor"

\* Mutant: the server asks the sensor again when its Readings fails.
Invocations_Retry(reg, n) ==
    IF n \in DOMAIN reg /\ IsSensor(reg[n])
    THEN IF ReadingsFunc(reg[n])[2] # NoError THEN <<n, n>> ELSE <<n>>
    ELSE <<>>

\* Server: the Readings calls a request for name n makes on the registered
\* instances.
Invocations(reg, n) ==
    IF n \in DOMAIN reg /\ IsSensor(reg[n]) THEN <<n>> ELSE <<>>

\* Mutant: the domain error is replaced by a generic failure.
DomainError_Generic(msg) == <<"internal", "error">>

\* Server: the error returned for a domain error with message msg.
DomainError(msg) == msg

\* Mutant: the last reading is lost.
Marshal_DropLast(rs) ==
    [i \in 1..(Len(rs) - 1) |-> NewValue(rs[i])]

\* Server: the readings as wire values.
Marshal(rs) == [i \in 1..Len(rs) |-> NewValue(rs[i])]

\* Server: the response <<readings, error>> to a Readings request for name n.
ReadingsResponse(reg, n) ==
    IF n \notin DOMAIN reg THEN <<<<>>, NotFoundError(n)>>
    ELSE IF ~IsSensor(reg[n]) THEN <<<<>>, WrongSubtypeError(n)>>
    ELSE LET r == ReadingsFunc(reg[n])
         IN  IF r[2] # NoError
             THEN <<<<>>, DomainError(r[2])>>
             ELSE <<Marshal(r[1]), NoError>>

\* newServer(): a server over a registry is constructed.
NewServer(reg) ==
    /\ registry' = reg
    /\ served' = <<>>
    /\ driven' = <<>>
    /\ resp' = <<<<>>, NoError>>
    /\ replacing' = FALSE
    /\ building' = <<>>
    /\ target' = <<>>
    /\ prev' = <<>>
    /\ seen' = <<>>
    /\ epoch' = 0
    /\ UNCHANGED <<baseVars, servoVars>>

\* sensorServer.Readings(ctx, &pb.SensorServiceReadingsRequest{Name: n})
Readings(n) ==
    /\ Len(served) < MaxRequests
    /\ served' = Append(served, n)
    /\ driven' = Invocations(registry, n)
    /\ resp' = ReadingsResponse(registry, n)
    /\ UNCHANGED <<registry, tableVars, baseVars, servoVars>>

SensorNext ==
    \/ \E reg \in Registries : NewServer(reg)
    \/ \E n \in SensorNames : Readings(n)

SensorSpec == Init /\ [][SensorNext]_vars

\* ------------------------------------------------------------ servo client
\* The short names a client is constructed with.
ServoNames == {"servo1", "servo2"}

\* angle uint8
Uint8 == 0..255

\* Angles a reply carries in its uint32 AngleDeg.
WireAngles == {0, 90, 255, 256, 300, 65535, 2147483647}

\* How an RPC on an open connection ends: a reply, a transport failure, or an
\* error of the remote side.
RpcOutcomes == {"ok", "transport", "remote"}

\* c.client.M(ctx, req): <<AngleDeg, error>>.  An invocation on a connection
\* that has been closed fails with the connection's "closed" error; on an open
\* one it ends with outcome o, a reply carrying the angle v.
Invoke(o, v) ==
    IF ~connOpen THEN <<0, "closed">>
    ELSE IF o = "ok" THEN <<v, "ok">>
    ELSE <<0, o>>

\* NewClientFromConn(conn, name, logger): a client named n over an open
\* connection.
NewClientFromConn(n) ==
    /\ cname' = n
    /\ connOpen' = TRUE
    /\ connCloses' = 0
    /\ scall' = <<"none", 0>>
    /\ reqs' = <<>>
    /\ reply' = <<0, "none">>
    /\ sret' = <<0, "none">>
    /\ UNCHANGED <<baseVars, sensorVars>>

\* func (sc *serviceClient) Close() error { return sc.conn.Close() }
\* conn.Close() of a connection that is closed already returns an error.
ServiceClientClose ==
    /\ cname # ""
    /\ connCloses < MaxCloses
    /\ connCloses' = connCloses + 1
    /\ connOpen' = FALSE
    /\ scall' = <<"Close", 0>>
    /\ reqs' = <<>>
    /\ reply' = <<0, "none">>
    /\ sret' = <<0, IF connOpen THEN "ok" ELSE "closed">>
    /\ UNCHANGED <<cname, baseVars, sensorVars>>

\* Mutant: the request names the resource by its qualified name.
ClientMove_QualifiedName(a, o) ==
    /\ cname # ""
    /\ scall' = <<"Move", a>>
    /\ reqs' = <<[method |-> "Move", Name |-> <<"rdk", "component", "servo", cname>>,
                  AngleDeg |-> a]>>
    /\ reply' = Invoke(o, 0)
    /\ sret' = <<0, Invoke(o, 0)[2]>>
    /\ UNCHANGED <<cname, connOpen, connCloses, baseVars, sensorVars>>

\* Mutant: the error of the RPC is logged and nil is returned.
ClientMove_SwallowError(a, o) ==
    /\ cname # ""
    /\ scall' = <<"Move", a>>
    /\ reqs' = <<[method |-> "Move", Name |-> cname, AngleDeg |-> a]>>
    /\ reply' = Invoke(o, 0)
    /\ sret' = <<0, "ok">>
    /\ UNCHANGED <<cname, connOpen, connCloses, baseVars, sensorVars>>

\* func (c *client) Move(ctx, angle uint8) error
\*   req := &pb.ServoServiceMoveRequest{AngleDeg: uint32(angle), Name: c.name}
\*   _, err := c.client.Move(ctx, req); if err != nil { return err }; return nil
ClientMove(a, o) ==
    /\ cname # ""
    /\ scall' = <<"Move", a>>
    /\ reqs' = <<[method |-> "Move", Name |-> cname, AngleDeg |-> a]>>
    /\ reply' = Invoke(o, 0)
    /\ sret' = <<0, Invoke(o, 0)[2]>>
    /\ UNCHANGED <<cname, connOpen, connCloses, baseVars, sensorVars>>

\* Mutant: an angle above 255 is clamped to 255.
ClientAngularOffset_Clamp(v, o) ==
    /\ cname # ""
    /\ scall' = <<"AngularOffset", 0>>
    /\ reqs' = <<[method |-> "AngularOffset", Name |-> cname]>>
    /\ reply' = Invoke(o, v)
    /\ sret' = IF Invoke(o, v)[2] # "ok"
               THEN <<0, Invoke(o, v)[2]>>
               ELSE <<IF Invoke(o, v)[1] > 255 THEN 255 ELSE Invoke(o, v)[1], "ok">>
    /\ UNCHANGED <<cname, connOpen, connCloses, baseVars, sensorVars>>

\* Mutant: a failed invocation is tried once more.
ClientAngularOffset_Retry(v, o) ==
    /\ cname # ""
    /\ scall' = <<"AngularOffset", 0>>
    /\ reqs' = IF Invoke(o, v)[2] # "ok"
               THEN <<[method |-> "AngularOffset", Name |-> cname],
                      [method |-> "AngularOffset", Name |-> cname]>>
               ELSE <<[method |-> "AngularOffset", Name |-> cname]>>
    /\ reply' = Invoke(o, v)
    /\ sret' = IF Invoke(o, v)[2] # "ok"
               THEN <<0, Invoke(o, v)[2]>>
               ELSE <<Invoke(o, v)[1] % 256, "ok">>
    /\ UNCHANGED <<cname, connOpen, connCloses, baseVars, sensorVars>>

\* func (c *client) AngularOffset(ctx) (uint8, error)
\*   req := &pb.ServoServiceAngularOffsetRequest{Name: c.name}
\*   resp, err := c.client.AngularOffset(ctx, req)
\*   if err != nil { return 0, err }
\*   return uint8(resp.GetAngleDeg()), nil
ClientAngularOffset(v, o) ==
    /\ cname # ""
    /\ scall' = <<"AngularOffset", 0>>
    /\ reqs' = <<[method |-> "AngularOffset", Name |-> cname]>>
    /\ reply' = Invoke(o, v)
    /\ sret' = IF Invoke(o, v)[2] # "ok"
               THEN <<0, Invoke(o, v)[2]>>
               ELSE <<Invoke(o, v)[1] % 256, "ok">>
    /\ UNCHANGED <<cname, connOpen, connCloses, baseVars, sensorVars>>

ServoNext ==
    \/ \E n \in ServoNames : NewClientFromConn(n)
    \/ ServiceClientClose
    \/ \E a \in Uint8, o \in RpcOutcomes : ClientMove(a, o)
    \/ \E v \in WireAngles, o \in RpcOutcomes : ClientAngularOffset(v, o)

ServoSpec == Init /\ [][ServoNext]_vars

\* ------------------------------------------------------------ registry
\* What a lookup of name n in table t finds.
Absent == <<"absent", "">>
Entry(t, n) == IF n \in DOMAIN t THEN t[n] ELSE Absent

\* Table t with the entry e under name n.
With(t, n, e) == [m \in DOMAIN t \cup {n} |-> IF m = n THEN e ELSE t[m]]

\* A replacement of the table by the mapping new begins: the new table is
\* built aside, the published one stays as it is.
ReplaceStart(new) ==
    /\ registry # <<>>
    /\ ~replacing
    /\ epoch < MaxReplaces
    /\ replacing' = TRUE
    /\ epoch' = epoch + 1
    /\ prev' = registry
    /\ target' = new
    /\ building' = <<>>
    /\ seen' = <<>>
    /\ UNCHANGED <<registry, served, driven, resp, baseVars, servoVars>>

\* Mutant: the entry is written into the published table.
ReplaceAdd_InPlace(n) ==
    /\ replacing
    /\ n \in DOMAIN target /\ n \notin DOMAIN building
    /\ building' = With(building, n, target[n])
    /\ registry' = With(registry, n, target[n])
    /\ UNCHANGED <<replacing, target, prev, seen, epoch, served, driven, resp,
                   baseVars, servoVars>>

\* One entry of the new mapping is put into the table that is being built.
ReplaceAdd(n) ==
    /\ replacing
    /\ n \in DOMAIN target /\ n \notin DOMAIN building
    /\ building' = With(building, n, target[n])
    /\ UNCHANGED <<registry, replacing, target, prev, seen, epoch, served, driven, resp,
                   baseVars, servoVars>>

\* The new table is complete and is published in one step.
ReplacePublish ==
    /\ replacing
    /\ DOMAIN building = DOMAIN target
    /\ registry' = building
    /\ replacing' = FALSE
    /\ building' = <<>>
    /\ UNCHANGED <<target, prev, seen, epoch, served, driven, resp, baseVars, servoVars>>

\* A lookup of name n in the published table, by a reader that runs next to
\* the replacement.
Lookup(n) ==
    /\ epoch > 0
    /\ seen' = <<n, Entry(registry, n)>>
    /\ UNCHANGED <<registry, replacing, building, target, prev, epoch, served, driven, resp,
                   baseVars, servoVars>>

RegistryNext ==
    \/ NewServer(TestRegistry)
    \/ \E new \in Registries : ReplaceStart(new)
    \/ \E n \in SensorNames : ReplaceAdd(n)
    \/ ReplacePublish
    \/ \E n \in SensorNames : Lookup(n)

RegistrySpec == Init /\ [][RegistryNext]_vars

\* ------------------------------------------------------------ DoMove
\* The state DoMove leaves alone.
notMove == <<actual, nwrap, muVars, closed, pc, locals, servoVars, sensorVars>>

\* DoMove(ctx, move, base) is called; base is a Base whose methods return nil,
\* an error of the driver or an error caused by the cancellation of ctx.
DoMove(mv) ==
    /\ mpc \in {"idle", "ret"}
    /\ move' = mv
    /\ mpc' = "angle"
    /\ mcalls' = <<>>
    /\ mouts' = <<>>
    /\ merr' = "none"
    /\ UNCHANGED notMove

\* if move.AngleDeg != 0 { err := base.Spin(ctx, AngleDeg, DegsPerSec, Block)
DoMoveAngle ==
    /\ mpc = "angle"
    /\ IF move.AngleDeg # 0
       THEN /\ mcalls' = Append(mcalls, <<"Spin", <<move.AngleDeg, move.DegsPerSec, move.Block>>>>)
            /\ mpc' = "spin"
       ELSE /\ mpc' = "distance"
            /\ UNCHANGED mcalls
    /\ UNCHANGED <<move, mouts, merr, notMove>>

\* Mutant: the error of Spin is dropped and DoMove goes on.
DoMoveSpinReturn_Continue(o) ==
    /\ mpc = "spin"
    /\ mouts' = Append(mouts, o)
    /\ mpc' = "distance"
    /\ UNCHANGED <<move, mcalls, merr, notMove>>

\* Spin returns o:  if err != nil { return err }
DoMoveSpinReturn(o) ==
    /\ mpc = "spin"
    /\ mouts' = Append(mouts, o)
    /\ IF o # "ok"
       THEN /\ merr' = o
            /\ mpc' = "ret"
       ELSE /\ mpc' = "distance"
            /\ UNCHANGED merr
    /\ UNCHANGED <<move, mcalls, notMove>>

\* if move.DistanceMillis != 0 { err := base.MoveStraight(ctx, DistanceMillis,
\* MillisPerSec, Block) ... } return nil
DoMoveDistance ==
    /\ mpc = "distance"
    /\ IF move.DistanceMillis # 0
       THEN /\ mcalls' = Append(mcalls, <<"MoveStraight",
                                         <<move.DistanceMillis, move.MillisPerSec, move.Block>>>>)
            /\ mpc' = "straight"
            /\ UNCHANGED merr
       ELSE /\ merr' = "ok"
            /\ mpc' = "ret"
            /\ UNCHANGED mcalls
    /\ UNCHANGED <<move, mouts, notMove>>

\* MoveStraight returns o:  if err != nil { return err }; return nil
DoMoveStraightReturn(o) ==
    /\ mpc = "straight"
    /\ mouts' = Append(mouts, o)
    /\ merr' = o
    /\ mpc' = "ret"
    /\ UNCHANGED <<move, mcalls, notMove>>

DoMoveNext ==
    \/ \E mv \in Moves : DoMove(mv)
    \/ DoMoveAngle
    \/ \E o \in Outcomes : DoMoveSpinReturn(o)
    \/ DoMoveDistance
    \/ \E o \in Outcomes : DoMoveStraightReturn(o)

DoMoveSpec == Init /\ [][DoMoveNext]_vars

\* ------------------------------------------------------------ properties
\* The processes that hold r.mu of wrapper w shared: their call is in flight,
\* from the return of RLock to the deferred RUnlock.
InFlight(w) == {p \in Procs : pc[p] \in {"held", "incall", "runlock"} /\ wr[p] = w}

\* The processes inside Reconfigure's critical section on wrapper w.
InCritical(w) ==
    {p \in Procs : /\ pc[p] \in {"critical", "close", "loadtab", "loaddata",
                                "storetab", "storedata", "unlock"}
                   /\ wr[p] = w}

\* Process p's call has been forwarded to an instance and has not returned.
Served(p) == pc[p] \in {"incall", "runlock"}

\* Process p is in, or has returned from, a Reconfigure whose argument is a wrapper.
TypeCorrect(p) == op[p] = "Reconfigure" /\ arg[p] # NotWrapper

\* C1: while a domain call is in flight on a wrapper its held instance is not
\* replaced, and every forwarded call runs on the instance the wrapper holds.
C1_NoSwapInFlight ==
    /\ [](\A p \in Procs : Served(p) => tgt[p] = actual[wr[p]])
    /\ [][\A w \in Wrappers : InFlight(w) # {} => actual'[w] = actual[w]]_vars

\* C1 witness: a call is being served while a Reconfigure of the same wrapper
\* waits in r.mu.Lock().
C1_Witness ==
    \E p, q \in Procs :
        /\ pc[p] = "incall" /\ op[p] \in Methods
        /\ pc[q] = "lockwait" /\ wr[q] = wr[p]

\* C2: a Reconfigure with a wrapper as argument returns no error and leaves in
\* r.actual an instance that the argument wrapper held, which is the instance
\* the calls that follow are served by.
C2_ServedByNew ==
    /\ \A p \in Procs :
          pc[p] = "unlock" /\ TypeCorrect(p)
             => err[p] = "ok" /\ actual[wr[p]] \in held[p]
    /\ \A p \in Procs : Served(p) => tgt[p] = actual[wr[p]]

\* C3: a Reconfigure whose argument is no Base wrapper returns an error, does
\* not call TryClose, leaves r.actual as it is and releases the lock.
C3_MismatchLeavesIntact ==
    /\ [](\A p \in Procs :
            op[p] = "Reconfigure" /\ arg[p] = NotWrapper =>
               /\ pc[p] \in {"lock", "lockwait", "critical", "unlock", "ret"}
               /\ closeRes[p] = "none" /\ old[p] = Nil
               /\ pc[p] \in {"unlock", "ret"} => err[p] = "error"
               /\ pc[p] = "ret" => writer[wr[p]] # p)
    /\ [][\A p \in Procs :
            op[p] = "Reconfigure" /\ arg[p] = NotWrapper /\ p \in InCritical(wr[p])
               => /\ actual'[wr[p]] = actual[wr[p]]
                  /\ pc'[p] = "ret" => writer'[wr[p]] = 0]_vars

\* C3 witness: such a Reconfigure has returned its error and a call on the
\* same wrapper is served afterwards.
C3_Witness ==
    \E p, q \in Procs :
        /\ pc[p] = "ret" /\ op[p] = "Reconfigure" /\ arg[p] = NotWrapper
        /\ err[p] = "error"
        /\ pc[q] = "incall" /\ wr[q] = wr[p]

\* C4: the shared holders of a wrapper's lock are exactly the calls in flight
\* on it: a call that has returned, with whatever outcome, holds nothing.
C4_NoLockLeak ==
    \A w \in Wrappers : readerCount[w] = Cardinality(InFlight(w))

\* C4 witness: a call has returned a cancellation error and a Reconfigure of
\* the same wrapper is inside its critical section.
C4_Witness ==
    \E p, q \in Procs :
        /\ pc[p] = "ret" /\ op[p] \in Methods /\ err[p] = "cancelled"
        /\ pc[q] = "critical" /\ wr[q] = wr[p]

\* C5: a call that arrives when no Reconfigure holds or waits for the lock is
\* admitted at once, whatever the number of calls in flight; a Reconfigure is
\* in its critical section with no call in flight and no other Reconfigure.
C5_SharedAndExclusive ==
    /\ [](\A w \in Wrappers :
             InCritical(w) # {} =>
                InFlight(w) = {} /\ Cardinality(InCritical(w)) = 1)
    /\ [][\A q \in Procs :
             /\ pc[q] = "idle" /\ pc'[q] \in {"held", "rblocked"}
             /\ writer[wr'[q]] = 0
             => pc'[q] = "held"]_vars

\* C5 witness: two calls are being served at once by the same instance of the
\* same wrapper.
C5_Witness ==
    \E p, q \in Procs :
        /\ p # q /\ pc[p] = "incall" /\ pc[q] = "incall"
        /\ wr[p] = wr[q] /\ tgt[p] = tgt[q]

\* C6: when TryClose fails, Reconfigure still stores the instance it took from
\* its argument and returns no error.
C6_ReleaseFailureAbsorbed ==
    \A p \in Procs :
        closeRes[p] = "fail" =>
           /\ pc[p] \in {"loadtab", "loaddata", "storetab", "storedata", "unlock", "ret"}
           /\ pc[p] \in {"unlock", "ret"} => err[p] = "ok" /\ rd[p] # Nil
           /\ pc[p] = "unlock" => actual[wr[p]] = rd[p]

\* C6 witness: a Reconfigure whose TryClose failed has returned.
C6_Witness ==
    \E p \in Procs : pc[p] = "ret" /\ closeRes[p] = "fail" /\ err[p] = "ok"

\* Two type-correct Reconfigure calls of wrapper w, by p and by q, have both
\* returned, p's having passed r.mu.Lock() last, and no later one has begun.
BothReturned(p, q, w) ==
    /\ p # q
    /\ pc[p] = "ret" /\ TypeCorrect(p) /\ wr[p] = w
    /\ pc[q] = "ret" /\ TypeCorrect(q) /\ wr[q] = w
    /\ lastLock[w] = p
    /\ InCritical(w) = {}

\* C7 as stated: the critical sections do not overlap, both calls return no
\* error and the wrapper ends with the instance of the call that locked last,
\* which is never the earlier call's instance.
C7_LastWinsNeverEarlier ==
    /\ \A w \in Wrappers : Cardinality(InCritical(w)) <= 1
    /\ \A p, q \in Procs, w \in Wrappers :
          BothReturned(p, q, w) =>
             /\ err[p] = "ok" /\ err[q] = "ok"
             /\ actual[w] = rd[p]
             /\ actual[w] # rd[q]

\* C7 as amended: the wrapper ends with the instance that the call that
\* locked last took from its argument, whether or not it is also the earlier
\* call's.
C7_LastWins ==
    /\ \A w \in Wrappers : Cardinality(InCritical(w)) <= 1
    /\ \A p, q \in Procs, w \in Wrappers :
          BothReturned(p, q, w) =>
             /\ err[p] = "ok" /\ err[q] = "ok"
             /\ actual[w] = rd[p]

\* C7 witness: both calls have returned and took different instances.
C7_Witness ==
    \E p, q \in Procs, w \in Wrappers : BothReturned(p, q, w) /\ rd[p] # rd[q]

\* C8: no two wrappers hold the same instance; in particular not a wrapper
\* and the argument of its Reconfigure that has returned.
C8_ExclusiveOwnership ==
    /\ \A v, w \in 1..nwrap : v # w => actual[v] # actual[w]
    /\ \A p \in Procs :
          pc[p] = "ret" /\ TypeCorrect(p) /\ arg[p] # wr[p]
             => actual[wr[p]] # actual[arg[p]]

\* Process p holds the lock of wrapper w shared, or exclusively.
HoldsShared(p, w) == p \in InFlight(w) /\ readerCount[w] >= 1
HoldsExclusive(p, w) == p \in InCritical(w) /\ writer[w] = p

\* C9: the next step of a process reads the field actual of a wrapper only
\* with that wrapper's lock held, and writes it only with it held exclusively.
C9_AccessUnderLock ==
    \A p \in Procs :
        /\ pc[p] \in {"loadtab", "loaddata"} =>
              HoldsShared(p, arg[p]) \/ HoldsExclusive(p, arg[p])
        /\ pc[p] \in {"held", "close"} =>
              HoldsShared(p, wr[p]) \/ HoldsExclusive(p, wr[p])
        /\ pc[p] \in {"storetab", "storedata"} => HoldsExclusive(p, wr[p])

\* C10: a constructed wrapper never holds the nil interface, and no call is
\* forwarded to it.
C10_NeverNil ==
    /\ \A w \in 1..nwrap : actual[w][1] # 0
    /\ \A p \in Procs : Served(p) => tgt[p][1] # 0

\* C10 witness: a call is served by a wrapper that a Reconfigure has returned
\* from.
C10_Witness ==
    \E p, q \in Procs :
        /\ pc[p] = "incall" /\ tgt[p] # Nil
        /\ pc[q] = "ret" /\ TypeCorrect(q) /\ err[q] = "ok" /\ wr[q] = wr[p]

\* C11: a Reconfigure that waits for the lock of a wrapper eventually enters
\* its critical section and returns, and a call that arrived while a
\* Reconfigure held or waited for the lock eventually is served and returns.
C11_Progress ==
    \A p \in Procs :
        /\ (pc[p] \in {"lock", "lockwait"}) ~> (pc[p] = "critical")
        /\ (pc[p] \in {"lock", "lockwait"}) ~> (pc[p] = "ret" /\ op[p] = "Reconfigure")
        /\ (pc[p] = "rblocked") ~> (pc[p] = "held")
        /\ (pc[p] = "rblocked") ~> (pc[p] = "ret" /\ op[p] \in Methods \cup {"ProxyFor"})

\* C11 witness: a call has arrived and is blocked while a Reconfigure waits for
\* the readers of the same wrapper to leave.
C11_Witness ==
    \E p, q \in Procs :
        /\ pc[p] = "rblocked" /\ op[p] \in Methods
        /\ pc[q] = "lockwait" /\ wr[q] = wr[p]

\* C12: a domain call makes exactly one call on the held instance, of the same
\* method with the arguments the caller passed, returns what that call
\* returned, and no step of it changes the held instance of a wrapper.
C12_ForwardedUnmodified ==
    /\ [](\A p \in Procs :
            op[p] \in Methods =>
               /\ pc[p] \in {"held", "rblocked"} => icalls[p] = <<>>
               /\ pc[p] \in {"incall", "runlock", "ret"} =>
                     icalls[p] = << <<op[p], sent[p]>> >>
               /\ pc[p] = "incall" => tgt[p] = actual[wr[p]]
               /\ pc[p] \in {"runlock", "ret"} => <<val[p], err[p]>> = res[p])
    /\ [][\A p \in Procs :
            (op[p] \in Methods \/ op'[p] \in Methods) /\ pc'[p] # pc[p]
               => actual' = actual]_vars

\* C12 witness: a MoveStraight with distance zero has been forwarded and has
\* returned the error of the instance.
C12_Witness ==
    \E p \in Procs :
        /\ pc[p] = "ret" /\ op[p] = "MoveStraight" /\ sent[p][1] = 0
        /\ Len(icalls[p]) = 1 /\ err[p] = "error"

\* The name the last Readings request asked for, and whether one was served.
Requested == served[Len(served)]
Answered == served # <<>>

\* C13: a Readings request for a name the registry does not have fails with an
\* error that contains "no generic sensor" and the name, whatever the
\* requests served before it.
C13_MissingNameNotFound ==
    Answered /\ Requested \notin DOMAIN registry =>
        /\ resp[1] = <<>>
        /\ Contains(resp[2], <<"no", "generic", "sensor">>)
        /\ Contains(resp[2], <<Requested>>)

\* C13 witness: the test's registry, Readings of sensor1 and then of sensor4.
C13_Witness ==
    /\ registry = TestRegistry
    /\ served = <<"sensor1", "sensor4">>
    /\ resp[2] # NoError

\* C14: a Readings request for a registered name whose entry is no Sensor
\* fails with an error that contains "not a generic sensor"; the name is not
\* reported as missing.
C14_WrongSubtype ==
    Answered /\ Requested \in DOMAIN registry /\ registry[Requested][1] # "sensor" =>
        /\ resp[1] = <<>>
        /\ Contains(resp[2], <<"not", "a", "generic", "sensor">>)
        /\ ~Contains(resp[2], <<"no", "generic", "sensor">>)

\* C14 witness: the test's registry, Readings of sensor3 ("notSensor").
C14_Witness ==
    /\ registry = TestRegistry
    /\ Answered /\ Requested = "sensor3"
    /\ registry[Requested] = NotSensor
    /\ resp[2] # NoError

\* C15: a request whose name is missing or whose entry is no Sensor invokes no
\* registered instance; every other request invokes Readings of the resolved
\* instance once, and of no other.
C15_DriverReachedOnlyWhenResolved ==
    Answered =>
        IF Requested \in DOMAIN registry /\ registry[Requested][1] = "sensor"
        THEN driven = <<Requested>>
        ELSE driven = <<>>

\* C15 witness: two sensors are registered and the one that was asked for,
\* whose Readings fails, has been invoked.
C15_Witness ==
    /\ Answered
    /\ \E n \in DOMAIN registry : n # Requested /\ registry[n][1] = "sensor"
    /\ Requested \in DOMAIN registry /\ registry[Requested] = FailingSensor
    /\ driven = <<Requested>>

\* C16: when Readings of the resolved sensor fails, the request fails with an
\* error that contains the text of the sensor's error.
C16_DomainErrorSurfaced ==
    Answered /\ Requested \in DOMAIN registry /\ registry[Requested][1] = "sensor"
             /\ ReadingsFunc(registry[Requested])[2] # NoError =>
        /\ resp[1] = <<>>
        /\ resp[2] # NoError
        /\ Contains(resp[2], ReadingsFunc(registry[Requested])[2])

\* C16 witness: the test's registry, Readings of sensor2 fails with "can't get
\* readings".
C16_Witness ==
    /\ registry = TestRegistry
    /\ Answered /\ Requested = "sensor2"
    /\ Contains(resp[2], CantGetReadings)

\* C17: when Readings of the resolved sensor succeeds, the response carries no
\* error and the wire value of each reading, as many and in the same order.
C17_ReadingsMarshalled ==
    Answered /\ Requested \in DOMAIN registry /\ registry[Requested][1] = "sensor"
             /\ ReadingsFunc(registry[Requested])[2] = NoError =>
        LET rs == ReadingsFunc(registry[Requested])[1]
        IN  /\ resp[2] = NoError
            /\ Len(resp[1]) = Len(rs)
            /\ \A i \in 1..Len(rs) : resp[1][i] = NewValue(rs[i])

\* C17 witness: the test's registry, Readings of sensor1 returns two values.
C17_Witness ==
    /\ registry = TestRegistry
    /\ Answered /\ Requested = "sensor1"
    /\ Len(resp[1]) = 2 /\ resp[1][1] # resp[1][2]

\* C18: however often Close is called on the client, Close of the connection
\* is invoked once in total.
C18_ConnClosedOnce ==
    /\ connCloses <= 1
    /\ scall[1] = "Close" => connCloses = 1

\* The client has been closed and the last call on it came after that.
CalledAfterClose == connCloses >= 1 /\ scall[1] \in {"Move", "AngularOffset"}

\* C19: a Move or AngularOffset on a client that has been closed returns the
\* "closed" error of the connection, which no call on an open connection
\* returns.
C19_ClosedClientFails ==
    /\ CalledAfterClose => sret = <<0, "closed">>
    /\ scall[1] \in {"Move", "AngularOffset"} /\ connCloses = 0 => sret[2] # "closed"

\* C19 witness: AngularOffset has been called after Close.
C19_Witness ==
    CalledAfterClose /\ scall[1] = "AngularOffset" /\ sret[2] = "closed"

\* C20: a Move or AngularOffset makes one RPC invocation, of its own method;
\* when it fails the call returns the error of that invocation, with the
\* value 0.
C20_OneInvocationNoRetry ==
    scall[1] \in {"Move", "AngularOffset"} =>
        /\ Len(reqs) = 1
        /\ reqs[1].method = scall[1]
        /\ reply[2] # "ok" => sret = <<0, reply[2]>>
        /\ reply[2] = "ok" => sret[2] = "ok"

\* C20 witness: an AngularOffset on an open connection failed in transport.
C20_Witness ==
    /\ connOpen /\ scall[1] = "AngularOffset"
    /\ reply[2] = "transport" /\ sret = <<0, "transport">>

\* C21: the request of Move(a) carries the short name of the client and the
\* angle a, which the receiving side narrows back to a; the request of
\* AngularOffset carries the short name.
C21_RequestRoundTrip ==
    /\ scall[1] = "Move" =>
          /\ reqs[1].Name = cname /\ reqs[1].Name \in ServoNames
          /\ reqs[1].AngleDeg = scall[2]
          /\ reqs[1].AngleDeg % 256 = scall[2]
    /\ scall[1] = "AngularOffset" =>
          reqs[1].Name = cname /\ reqs[1].Name \in ServoNames

\* C21 witness: Move(255) of the client named servo2 has sent its request.
C21_Witness ==
    /\ cname = "servo2" /\ scall = <<"Move", 255>>
    /\ reqs[1].AngleDeg = 255 /\ reqs[1].Name = "servo2"

\* C22: an AngularOffset whose reply carries the angle v returns no error and
\* the value v narrowed to 8 bits: v up to 255, v mod 256 above.
C22_NarrowingTruncates ==
    scall[1] = "AngularOffset" /\ reply[2] = "ok" =>
        /\ sret[2] = "ok"
        /\ sret[1] \in Uint8
        /\ reply[1] <= 255 => sret[1] = reply[1]
        /\ reply[1] > 255 => sret[1] = reply[1] % 256

\* C22 witness: a reply with the angle 300 has been narrowed to 44.
C22_Witness ==
    scall[1] = "AngularOffset" /\ reply = <<300, "ok">> /\ sret = <<44, "ok">>

\* C23: from the beginning of a replacement on, the table the lookups read is
\* the complete old mapping or the complete new one, never a table with
\* entries of both, and what a lookup finds is what one of the two has.
C23_WholeTableOnly ==
    epoch > 0 =>
        /\ registry \in {prev, target}
        /\ replacing => registry = prev
        /\ seen # <<>> => seen[2] \in {Entry(prev, seen[1]), Entry(target, seen[1])}

\* C23 witness: a lookup has found the old entry of a name while the new
\* table, which has another entry for it, is half built.
C23_Witness ==
    /\ replacing /\ seen # <<>>
    /\ building # <<>> /\ DOMAIN building # DOMAIN target
    /\ seen[1] \in DOMAIN building
    /\ seen[2] = Entry(prev, seen[1]) /\ seen[2] # Entry(target, seen[1])

\* C24: no call is forwarded to an instance that a Reconfigure has called
\* TryClose on.
C24_NoCallOnReleased ==
    [][\A p \in Procs :
          pc[p] = "held" /\ op[p] \in Methods /\ pc'[p] = "incall"
             => tgt'[p][2] \notin closed]_vars

\* The calls of method m that the last DoMove has made on its base.
CallsOf(m) == {i \in 1..Len(mcalls) : mcalls[i][1] = m}

\* C25: DoMove calls Spin at most once and then MoveStraight at most once; it
\* calls Spin exactly when AngleDeg is not zero, and MoveStraight exactly when
\* DistanceMillis is not zero and Spin, if called, succeeded; the error of a
\* failed Spin is returned; with both zero it calls nothing and returns nil.
C25_DoMoveOrder ==
    /\ Cardinality(CallsOf("Spin")) <= 1
    /\ Cardinality(CallsOf("MoveStraight")) <= 1
    /\ Len(mcalls) = Cardinality(CallsOf("Spin")) + Cardinality(CallsOf("MoveStraight"))
    /\ \A i \in CallsOf("Spin"), j \in CallsOf("MoveStraight") : i < j
    /\ CallsOf("Spin") # {} => move.AngleDeg # 0
    /\ CallsOf("MoveStraight") # {} =>
          /\ move.DistanceMillis # 0
          /\ CallsOf("Spin") # {} => Len(mouts) >= 1 /\ mouts[1] = "ok"
    /\ mpc = "ret" =>
          /\ CallsOf("Spin") # {} <=> move.AngleDeg # 0
          /\ CallsOf("MoveStraight") # {} <=>
                /\ move.DistanceMillis # 0
                /\ CallsOf("Spin") # {} => mouts[1] = "ok"
          /\ (CallsOf("Spin") # {} /\ mouts[1] # "ok") =>
                merr = mouts[1] /\ CallsOf("MoveStraight") = {}
          /\ (move.AngleDeg = 0 /\ move.DistanceMillis = 0) =>
                mcalls = <<>> /\ merr = "ok"

\* C25 witness: a DoMove with an angle and a distance has returned the error of
\* its Spin, and has made no other call.
C25_Witness ==
    /\ mpc = "ret"
    /\ move.AngleDeg # 0 /\ move.DistanceMillis # 0
    /\ Len(mcalls) = 1 /\ mcalls[1][1] = "Spin"
    /\ mouts = <<"error">> /\ merr = "error"

\* Process p returns from WrapWithReconfigurable in this step.
WrapReturns(p) == pc[p] = "idle" /\ pc'[p] = "ret" /\ op'[p] = "Wrap"

\* C26: WrapWithReconfigurable returns an error and no wrapper for a value that
\* is no Base, a new wrapper that holds exactly the Base for a plain Base, and
\* the same wrapper, unchanged, for a wrapper: no wrapper is created around a
\* wrapper, and wrapping the result again changes nothing.
C26_WrapIdempotent ==
    [][\A p \in Procs : WrapReturns(p) =>
          LET x == sent'[p][1]
              xw == sent'[p][2]
          IN  /\ (xw = 0 /\ x \notin Bases) =>
                    /\ err'[p] = "error" /\ wr'[p] = 0
                    /\ nwrap' = nwrap /\ actual' = actual
              /\ (xw = 0 /\ x \in Bases) =>
                    /\ err'[p] = "ok"
                    /\ wr'[p] \in Wrappers \ (1..nwrap)
                    /\ nwrap' = nwrap + 1 /\ wr'[p] = nwrap'
                    /\ actual' = [actual EXCEPT ![wr'[p]] = x]
              /\ xw # 0 =>
                    /\ err'[p] = "ok" /\ wr'[p] = xw
                    /\ nwrap' = nwrap /\ actual' = actual]_vars

\* C26 witness: one process has wrapped a wrapper and got that wrapper, which
\* holds a plain Base; the other has got an error for a value that is no Base.
C26_Witness ==
    \E p, q \in Procs :
        /\ pc[p] = "ret" /\ op[p] = "Wrap" /\ sent[p][2] # 0
        /\ wr[p] = sent[p][2] /\ err[p] = "ok" /\ actual[wr[p]] \in Bases
        /\ pc[q] = "ret" /\ op[q] = "Wrap" /\ sent[q] = <<NotBase, 0>>
        /\ err[q] = "error" /\ wr[q] = 0

====
